---- MODULE Spec2Model ----
(***************************************************************************)
(* A model of inventory_system.py: the module-level mapping stock_data,    *)
(* the operations add_item, remove_item, get_qty, check_low_items,         *)
(* print_data, and the JSON persistence load_data / save_data.             *)
(*                                                                         *)
(* Python values are tagged records, so that the dynamic type checks of    *)
(* the code (isinstance) and the TypeErrors of its arithmetic are part of  *)
(* the model.  A float is held as twice its value (halves), which is exact *)
(* for the floats the model uses (k and k + 0.5).                          *)
(***************************************************************************)
EXTENDS Integers, Sequences, FiniteSets, TLC

VARIABLES
    stock_data,  \* the dict: a sequence of [k, v] in insertion order, keys distinct
    disk,        \* the content of the file at FilePath: NoFile or a JSON token sequence
    sink,        \* the caller's list handed to add_item as logs
    call,        \* the call that was made last: [op, item, qty, threshold, file, logs]
    raised,      \* "" when the last call returned, else the exception that escaped it
    retval,      \* what the last call returned (get_qty; None otherwise)
    low,         \* the list the last check_low_items call returned
    logged,      \* the records the last call handed to the logging module
    sumAdded,    \* history: per item, the sum of the qty arguments of the adds made for it
    pc           \* main(): the number of its statements that have run, -1 once an
                 \* exception has ended it (0 as long as main() is not running)

vars == <<stock_data, disk, sink, call, raised, retval, low, logged, sumAdded, pc>>

----------------------------------------------------------------------------
(* Bounds *)

\* Quantities (as numbers) are kept within -MaxQty .. MaxQty by the actions' guards.
MaxQty == 2

\* The caller's sink holds at most MaxSink entries.
MaxSink == 1

----------------------------------------------------------------------------
(* Python values *)

PyInt(n) == [t |-> "int", n |-> n, s |-> ""]
PyBool(b) == [t |-> "bool", n |-> IF b THEN 1 ELSE 0, s |-> ""]
PyFloat(halves) == [t |-> "float", n |-> halves, s |-> ""]
PyStr(s) == [t |-> "str", n |-> 0, s |-> s]
PyNone == [t |-> "NoneType", n |-> 0, s |-> ""]
PyList == [t |-> "list", n |-> 0, s |-> ""]

\* isinstance(v, int): bool is a subclass of int.
IsInstanceInt(v) == v.t \in {"int", "bool"}

IsInstanceStr(v) == v.t = "str"

IsNumber(v) == v.t \in {"int", "bool", "float"}

\* The numeric value of a number, doubled.
Twice(v) == IF v.t = "float" THEN v.n ELSE 2 * v.n

\* a + b and a - b where b is an int (or bool): defined on numbers only; the
\* result is a float when a is one, an int otherwise (bool + int is an int).
ArithRaises(a, b) == ~(IsNumber(a) /\ IsNumber(b))

PyAddOverwrites(a, b) == PyInt(b.n)

PyAddClampedAtZero(a, b) == PyInt(IF a.n + b.n < 0 THEN 0 ELSE a.n + b.n)

PyAdd(a, b) ==
    IF a.t = "float" \/ b.t = "float"
    THEN PyFloat(Twice(a) + Twice(b))
    ELSE PyInt(a.n + b.n)

PySub(a, b) ==
    IF a.t = "float" \/ b.t = "float"
    THEN PyFloat(Twice(a) - Twice(b))
    ELSE PyInt(a.n - b.n)

\* a < b and a <= b between numbers; between a number and a str, None or a
\* list the comparison raises TypeError.  (The model compares no two strs.)
CompareRaises(a, b) == ~(IsNumber(a) /\ IsNumber(b))

PyLt(a, b) == Twice(a) < Twice(b)

PyLe(a, b) == Twice(a) <= Twice(b)

----------------------------------------------------------------------------
(* dict *)

Keys(d) == {d[i].k : i \in 1..Len(d)}

HasKey(d, k) == k \in Keys(d)

IndexOf(d, k) == CHOOSE i \in 1..Len(d) : d[i].k = k

\* d[k], for a key that is present
DictAt(d, k) == d[IndexOf(d, k)].v

\* d.get(k, default)
DictGet(d, k, default) == IF HasKey(d, k) THEN DictAt(d, k) ELSE default

DictSetAppendsAnew(d, k, v) ==
    SelectSeq(d, LAMBDA e : e.k # k) \o <<[k |-> k, v |-> v]>>

\* d[k] = v: a present key keeps its place, a new one goes last
DictSet(d, k, v) ==
    IF HasKey(d, k)
    THEN [d EXCEPT ![IndexOf(d, k)].v = v]
    ELSE Append(d, [k |-> k, v |-> v])

DictDelDropsTail(d, k) == SubSeq(d, 1, IndexOf(d, k) - 1)

\* del d[k], for a key that is present
DictDel(d, k) ==
    LET i == IndexOf(d, k)
    IN  SubSeq(d, 1, i - 1) \o SubSeq(d, i + 1, Len(d))

----------------------------------------------------------------------------
(* What a call leaves behind for its caller *)

NoCall == [op |-> "", item |-> PyNone, qty |-> PyNone, threshold |-> PyNone,
           file |-> "", logs |-> FALSE]

\* One record handed to the logging module: the level, the function that
\* logged, and the arguments formatted into the message.
LogRecord(level, fn, key, val) == [level |-> level, fn |-> fn, key |-> key, val |-> val]

\* The entry add_item appends to logs: f"{datetime.now()}: Added {qty} of {item}"
\* (the clock is not modelled; the entry keeps the two values formatted).
SinkEntry(qty, item) == [qty |-> qty, item |-> item]

\* A call that returns None having changed nothing but the log output.
ReturnsNone(records) ==
    /\ raised' = ""
    /\ retval' = PyNone
    /\ low' = <<>>
    /\ logged' = records

\* A call that an exception escapes.
Raises(exc) ==
    /\ raised' = exc
    /\ retval' = PyNone
    /\ low' = <<>>
    /\ logged' = <<>>

----------------------------------------------------------------------------
(* add_item(item, qty, logs): logs is None (a fresh list, dropped on return) *)
(* or the caller's sink.                                                     *)

AddRejectsTypesOnly(item, qty) ==
    IF ~IsInstanceStr(item) THEN "item"
    ELSE IF ~IsInstanceInt(qty) THEN "qty"
    ELSE ""

\* The validation of add_item: the message it logs, or "" when the arguments pass.
AddRejects(item, qty) ==
    IF ~IsInstanceStr(item) THEN "item"
    ELSE IF ~IsInstanceInt(qty) \/ PyLt(qty, PyInt(0)) THEN "qty"
    ELSE ""

AddSkipsNothing(item) == FALSE

\* if not item: return
AddSkips(item) == item.s = ""

add_item(item, qty, logs) ==
    /\ call' = [NoCall EXCEPT !.op = "add_item", !.item = item, !.qty = qty, !.logs = logs]
    /\ UNCHANGED disk
    /\ IF AddRejects(item, qty) = "item"
       THEN /\ ReturnsNone(<<LogRecord("ERROR", "add_item", "item", item)>>)
            /\ UNCHANGED <<stock_data, sink>>
       ELSE IF AddRejects(item, qty) = "qty"
       THEN /\ ReturnsNone(<<LogRecord("ERROR", "add_item", "qty", qty)>>)
            /\ UNCHANGED <<stock_data, sink>>
       ELSE IF AddSkips(item)
       THEN /\ ReturnsNone(<<>>)
            /\ UNCHANGED <<stock_data, sink>>
       ELSE LET old == DictGet(stock_data, item.s, PyInt(0))
            IN  IF ArithRaises(old, qty)
                THEN /\ Raises("TypeError")
                     /\ UNCHANGED <<stock_data, sink>>
                ELSE /\ stock_data' = DictSet(stock_data, item.s, PyAdd(old, qty))
                     /\ sink' = IF logs THEN Append(sink, SinkEntry(qty, item.s)) ELSE sink
                     /\ ReturnsNone(<<>>)

----------------------------------------------------------------------------
(* remove_item(item, qty) *)

RemoveRejectsNegativeOnly(item, qty) ==
    IF ~IsInstanceStr(item) THEN "item"
    ELSE IF ~IsInstanceInt(qty) \/ PyLt(qty, PyInt(0)) THEN "qty"
    ELSE ""

\* The validation of remove_item: the message it logs, or "" when the arguments pass.
RemoveRejects(item, qty) ==
    IF ~IsInstanceStr(item) THEN "item"
    ELSE IF ~IsInstanceInt(qty) \/ PyLe(qty, PyInt(0)) THEN "qty"
    ELSE ""

RemoveNotFoundSilent(item) == <<>>

\* What the handler of KeyError logs.
RemoveNotFound(item) == <<LogRecord("WARNING", "remove_item", "item", item)>>

RemoveDeletesNever(left) == FALSE

RemoveDeletesBelowZero(left) == PyLt(left, PyInt(0))

\* if stock_data[item] <= 0
RemoveDeletes(left) == PyLe(left, PyInt(0))

remove_item(item, qty) ==
    /\ call' = [NoCall EXCEPT !.op = "remove_item", !.item = item, !.qty = qty]
    /\ UNCHANGED <<disk, sink>>
    /\ IF RemoveRejects(item, qty) = "item"
       THEN /\ ReturnsNone(<<LogRecord("ERROR", "remove_item", "item", item)>>)
            /\ UNCHANGED stock_data
       ELSE IF RemoveRejects(item, qty) = "qty"
       THEN /\ ReturnsNone(<<LogRecord("ERROR", "remove_item", "qty", qty)>>)
            /\ UNCHANGED stock_data
       ELSE IF ~HasKey(stock_data, item.s)
       THEN \* KeyError from stock_data[item], caught
            /\ ReturnsNone(RemoveNotFound(item))
            /\ UNCHANGED stock_data
       ELSE LET old == DictAt(stock_data, item.s)
                left == PySub(old, qty)
            IN  IF ArithRaises(old, qty)
                THEN \* TypeError from the subtraction: only KeyError is caught
                     /\ Raises("TypeError")
                     /\ UNCHANGED stock_data
                ELSE /\ stock_data' =
                            IF RemoveDeletes(left)
                            THEN DictDel(stock_data, item.s)
                            ELSE DictSet(stock_data, item.s, left)
                     /\ ReturnsNone(<<>>)

----------------------------------------------------------------------------
(* get_qty(item) *)

GetQtyMissingIsNone(d, item) ==
    IF ~IsInstanceStr(item) THEN PyInt(0) ELSE DictGet(d, item.s, PyNone)

\* The value get_qty returns.
GetQty(d, item) ==
    IF ~IsInstanceStr(item) THEN PyInt(0) ELSE DictGet(d, item.s, PyInt(0))

get_qty(item) ==
    /\ call' = [NoCall EXCEPT !.op = "get_qty", !.item = item]
    /\ UNCHANGED <<stock_data, disk, sink>>
    /\ raised' = ""
    /\ retval' = GetQty(stock_data, item)
    /\ low' = <<>>
    /\ logged' = IF ~IsInstanceStr(item)
                 THEN <<LogRecord("ERROR", "get_qty", "item", item)>>
                 ELSE <<>>

----------------------------------------------------------------------------
(* check_low_items(threshold) *)

RECURSIVE LowItemsAtOrBelow(_, _, _)
LowItemsAtOrBelow(d, threshold, from) ==
    IF from > Len(d) THEN <<>>
    ELSE (IF PyLe(d[from].v, threshold) THEN <<d[from].k>> ELSE <<>>)
         \o LowItemsAtOrBelow(d, threshold, from + 1)

\* The loop of check_low_items over d[from..]: the keys below threshold, in
\* iteration order.
RECURSIVE LowItems(_, _, _)
LowItems(d, threshold, from) ==
    IF from > Len(d) THEN <<>>
    ELSE (IF PyLt(d[from].v, threshold) THEN <<d[from].k>> ELSE <<>>)
         \o LowItems(d, threshold, from + 1)

\* Some comparison of the loop raises TypeError.
LowItemsRaises(d, threshold) ==
    \E i \in 1..Len(d) : CompareRaises(d[i].v, threshold)

check_low_items(threshold) ==
    /\ call' = [NoCall EXCEPT !.op = "check_low_items", !.threshold = threshold]
    /\ UNCHANGED <<stock_data, disk, sink>>
    /\ IF LowItemsRaises(stock_data, threshold)
       THEN Raises("TypeError")
       ELSE /\ raised' = ""
            /\ retval' = PyNone
            /\ low' = LowItems(stock_data, threshold, 1)
            /\ logged' = <<>>

----------------------------------------------------------------------------
(* print_data() *)

\* The lines of the report: the header, then one line per entry.
Report(d) ==
    <<LogRecord("INFO", "print_data", "Items Report", PyNone)>>
    \o [i \in 1..Len(d) |-> LogRecord("INFO", "print_data", d[i].k, d[i].v)]

print_data ==
    /\ call' = [NoCall EXCEPT !.op = "print_data"]
    /\ UNCHANGED <<stock_data, disk, sink>>
    /\ ReturnsNone(Report(stock_data))

----------------------------------------------------------------------------
(* JSON text, as the sequence of its tokens (white space and indentation   *)
(* carry no value and are left out).  A number token holds its sign, the   *)
(* decimal digits of its integer part and the digits of its fraction (none *)
(* for an integer literal).                                                *)

Punct(s) == [k |-> "punct", s |-> s, d |-> <<>>, f |-> <<>>]
StringTok(s) == [k |-> "string", s |-> s, d |-> <<>>, f |-> <<>>]
Literal(s) == [k |-> "literal", s |-> s, d |-> <<>>, f |-> <<>>]
Number(sign, d, f) == [k |-> "number", s |-> sign, d |-> d, f |-> f]

Abs(n) == IF n < 0 THEN -n ELSE n

\* The decimal digits of n >= 0, most significant first.
RECURSIVE Digits(_)
Digits(n) == IF n < 10 THEN <<n>> ELSE Append(Digits(n \div 10), n % 10)

\* The number a digit sequence writes.
RECURSIVE DigitsValue(_)
DigitsValue(d) ==
    IF d = <<>> THEN 0
    ELSE 10 * DigitsValue(SubSeq(d, 1, Len(d) - 1)) + d[Len(d)]

EncodeValueUnsigned(v) ==
    CASE v.t = "int" -> Number("", Digits(Abs(v.n)), <<>>)
      [] v.t = "float" -> Number("", Digits(Abs(v.n) \div 2),
                                 <<IF Abs(v.n) % 2 = 1 THEN 5 ELSE 0>>)
      [] v.t = "bool" -> Literal(IF v.n = 1 THEN "true" ELSE "false")
      [] v.t = "NoneType" -> Literal("null")
      [] v.t = "str" -> StringTok(v.s)

\* json.dump of one value: int and float by repr, bool as true/false, None
\* as null, str as a string.
EncodeValue(v) ==
    CASE v.t = "int" -> Number(IF v.n < 0 THEN "-" ELSE "", Digits(Abs(v.n)), <<>>)
      [] v.t = "float" -> Number(IF v.n < 0 THEN "-" ELSE "", Digits(Abs(v.n) \div 2),
                                 <<IF Abs(v.n) % 2 = 1 THEN 5 ELSE 0>>)
      [] v.t = "bool" -> Literal(IF v.n = 1 THEN "true" ELSE "false")
      [] v.t = "NoneType" -> Literal("null")
      [] v.t = "str" -> StringTok(v.s)

\* The members of the object json.dump writes for d[from..]
RECURSIVE EncodeMembers(_, _)
EncodeMembers(d, from) ==
    IF from > Len(d) THEN <<>>
    ELSE (IF from > 1 THEN <<Punct(",")>> ELSE <<>>)
         \o <<StringTok(d[from].k), Punct(":"), EncodeValue(d[from].v)>>
         \o EncodeMembers(d, from + 1)

\* json.dump(stock_data, f, ensure_ascii=False, indent=2)
JsonDump(d) == <<Punct("{")>> \o EncodeMembers(d, 1) \o <<Punct("}")>>

IsScalarTok(tok) ==
    \/ tok.k = "string"
    \/ tok.k = "literal" /\ tok.s \in {"true", "false", "null"}
    \/ tok.k = "number" /\ tok.d # <<>> /\ tok.f \in {<<>>, <<0>>, <<5>>}

\* The value of a scalar token: an integer literal is an int, a literal with
\* a fraction a float.
DecodeScalar(tok) ==
    CASE tok.k = "string" -> PyStr(tok.s)
      [] tok.k = "literal" /\ tok.s = "true" -> PyBool(TRUE)
      [] tok.k = "literal" /\ tok.s = "false" -> PyBool(FALSE)
      [] tok.k = "literal" /\ tok.s = "null" -> PyNone
      [] tok.k = "number" /\ tok.f = <<>> ->
            PyInt((IF tok.s = "-" THEN -1 ELSE 1) * DigitsValue(tok.d))
      [] tok.k = "number" /\ tok.f # <<>> ->
            PyFloat((IF tok.s = "-" THEN -1 ELSE 1)
                    * (2 * DigitsValue(tok.d) + (IF tok.f = <<5>> THEN 1 ELSE 0)))

\* What json.load gives: a JSONDecodeError, a dict, or a value that is no dict.
DecodeError == [err |-> TRUE, isdict |-> FALSE, dict |-> <<>>, val |-> PyNone]
DecodedDict(d) == [err |-> FALSE, isdict |-> TRUE, dict |-> d, val |-> PyNone]
DecodedValue(v) == [err |-> FALSE, isdict |-> FALSE, dict |-> <<>>, val |-> v]

\* The members of an object from toks[i] on, added to acc the way a dict
\* takes them: a repeated name keeps its first place and its last value.
RECURSIVE ParseMembers(_, _, _)
ParseMembers(toks, i, acc) ==
    IF i + 3 > Len(toks) THEN DecodeError
    ELSE IF ~(toks[i].k = "string" /\ toks[i + 1] = Punct(":") /\ IsScalarTok(toks[i + 2]))
    THEN DecodeError
    ELSE LET next == DictSet(acc, toks[i].s, DecodeScalar(toks[i + 2]))
         IN  IF toks[i + 3] = Punct("}")
             THEN (IF i + 3 = Len(toks) THEN DecodedDict(next) ELSE DecodeError)
             ELSE IF toks[i + 3] = Punct(",")
             THEN ParseMembers(toks, i + 4, next)
             ELSE DecodeError

\* The elements of an array from toks[i] on.
RECURSIVE ParseElements(_, _)
ParseElements(toks, i) ==
    IF i + 1 > Len(toks) THEN DecodeError
    ELSE IF ~IsScalarTok(toks[i]) THEN DecodeError
    ELSE IF toks[i + 1] = Punct("]")
    THEN (IF i + 1 = Len(toks) THEN DecodedValue(PyList) ELSE DecodeError)
    ELSE IF toks[i + 1] = Punct(",")
    THEN ParseElements(toks, i + 2)
    ELSE DecodeError

\* json.load(f), for documents whose objects and arrays hold scalars.
JsonLoad(toks) ==
    IF toks = <<>> THEN DecodeError
    ELSE IF Len(toks) = 1
    THEN (IF IsScalarTok(toks[1]) THEN DecodedValue(DecodeScalar(toks[1])) ELSE DecodeError)
    ELSE IF toks[1] = Punct("{")
    THEN (IF toks[2] = Punct("}")
          THEN (IF Len(toks) = 2 THEN DecodedDict(<<>>) ELSE DecodeError)
          ELSE ParseMembers(toks, 2, <<>>))
    ELSE IF toks[1] = Punct("[")
    THEN (IF toks[2] = Punct("]")
          THEN (IF Len(toks) = 2 THEN DecodedValue(PyList) ELSE DecodeError)
          ELSE ParseElements(toks, 2))
    ELSE DecodeError

----------------------------------------------------------------------------
(* Files *)

NoFile == [exists |-> FALSE, toks |-> <<>>]
File(toks) == [exists |-> TRUE, toks |-> toks]

\* load_data's and save_data's default path, and a path no file is ever at.
FilePath == "inventory.json"
MissingPath == "missing.json"
Paths == {FilePath, MissingPath}

\* A path with a NUL character in it, which open() refuses with ValueError
\* ("embedded null byte") before it asks the file system.
InvalidPath == "inventory\\0.json"

IsValidPath(file) == file # InvalidPath

\* How the file system answers open(file, "r") and the read of an existing
\* file: done, refused (an OSError that is not FileNotFoundError), or bytes
\* that are not UTF-8.
ReadOutcomes == {"ok", "PermissionError", "UnicodeDecodeError"}

\* How the file system answers open(file, "w") and the write: done, refused
\* at open (the file is as it was), or failed after open truncated the file.
WriteOutcomes == {"ok", "OSError at open", "OSError at write"}

----------------------------------------------------------------------------
(* load_data(file) *)

\* d.update(data)
RECURSIVE DictUpdate(_, _, _)
DictUpdate(d, data, from) ==
    IF from > Len(data) THEN d
    ELSE DictUpdate(DictSet(d, data[from].k, data[from].v), data, from + 1)

UpdateWithoutClear(d, data) == DictUpdate(d, data, 1)

\* stock_data.clear(); stock_data.update(data)
ClearAndUpdate(d, data) == DictUpdate(<<>>, data, 1)

LoadedStockClearsFirst(d, data) ==
    IF ~data.err /\ data.isdict THEN ClearAndUpdate(d, data.dict) ELSE <<>>

\* stock_data once json.load has answered: replaced when the value is a
\* dict, untouched after a JSONDecodeError or a value of another type.
LoadedStock(d, data) ==
    IF ~data.err /\ data.isdict THEN ClearAndUpdate(d, data.dict) ELSE d

load_data(file, outcome) ==
    /\ call' = [NoCall EXCEPT !.op = "load_data", !.file = file]
    /\ UNCHANGED <<disk, sink>>
    /\ IF ~IsValidPath(file)
       THEN \* ValueError from open(), not caught
            /\ Raises("ValueError")
            /\ UNCHANGED stock_data
       ELSE IF ~disk[file].exists
       THEN \* FileNotFoundError, caught
            /\ ReturnsNone(<<LogRecord("WARNING", "load_data", file, PyNone)>>)
            /\ UNCHANGED stock_data
       ELSE IF outcome # "ok"
       THEN \* neither an OSError other than FileNotFoundError nor a
            \* UnicodeDecodeError (a ValueError, no JSONDecodeError) is caught
            /\ Raises(outcome)
            /\ UNCHANGED stock_data
       ELSE LET data == JsonLoad(disk[file].toks)
            IN  /\ stock_data' = LoadedStock(stock_data, data)
                /\ IF data.err
                   THEN ReturnsNone(<<LogRecord("ERROR", "load_data", file, PyNone)>>)
                   ELSE IF data.isdict
                   THEN ReturnsNone(<<>>)
                   ELSE ReturnsNone(<<LogRecord("ERROR", "load_data", file, data.val)>>)

----------------------------------------------------------------------------
(* save_data(file) *)

save_data(file, outcome) ==
    /\ call' = [NoCall EXCEPT !.op = "save_data", !.file = file]
    /\ UNCHANGED <<stock_data, sink>>
    /\ IF ~IsValidPath(file)
       THEN \* ValueError from open(): only OSError is caught
            /\ Raises("ValueError")
            /\ UNCHANGED disk
       ELSE IF outcome = "ok"
       THEN /\ disk' = [disk EXCEPT ![file] = File(JsonDump(stock_data))]
            /\ ReturnsNone(<<>>)
       ELSE /\ disk' = IF outcome = "OSError at open"
                       THEN disk
                       ELSE [disk EXCEPT ![file] = File(<<>>)]
            /\ ReturnsNone(<<LogRecord("ERROR", "save_data", file, PyNone)>>)

----------------------------------------------------------------------------
(* The callers' arguments and the files found on disk *)

ItemNames == {"apple", "banana"}

\* the names main() uses
MainNames == ItemNames \cup {"orange"}

\* item: two names, the empty string, and a value that is no str
ItemArgs == {PyStr(n) : n \in ItemNames} \cup {PyStr(""), PyInt(7)}

\* qty: ints of either sign, a bool (an int to isinstance) and a str
QtyArgs == {PyInt(-1), PyInt(0), PyInt(1), PyBool(TRUE), PyStr("1")}

\* threshold: ints, and a value no number compares with
ThresholdArgs == {PyInt(1), PyInt(5), PyNone}

\* {"apple": "5", "banana": 0.5}
FileStringValue ==
    <<Punct("{"), StringTok("apple"), Punct(":"), StringTok("5"), Punct(","),
      StringTok("banana"), Punct(":"), Number("", <<0>>, <<5>>), Punct("}")>>

\* {"banana": -2}
FileNegativeValue ==
    <<Punct("{"), StringTok("banana"), Punct(":"), Number("-", <<2>>, <<>>), Punct("}")>>

\* {"banana": 1, "banana": 2}
FileRepeatedName ==
    <<Punct("{"), StringTok("banana"), Punct(":"), Number("", <<1>>, <<>>), Punct(","),
      StringTok("banana"), Punct(":"), Number("", <<2>>, <<>>), Punct("}")>>

\* [1, 2]
FileArray ==
    <<Punct("["), Number("", <<1>>, <<>>), Punct(","), Number("", <<2>>, <<>>), Punct("]")>>

\* {"apple": 1      (cut short)
FileCutShort ==
    <<Punct("{"), StringTok("apple"), Punct(":"), Number("", <<1>>, <<>>)>>

\* The file at FilePath when the program starts.
InitialFiles ==
    {NoFile, File(FileStringValue), File(FileNegativeValue), File(FileRepeatedName),
     File(FileArray), File(FileCutShort)}

\* Every number stored is within the bound.
InBounds(d) ==
    \A i \in 1..Len(d) : IsNumber(d[i].v) => Abs(Twice(d[i].v)) <= 2 * MaxQty

----------------------------------------------------------------------------
(* The program with its files: any call, add_item without a sink *)

Init ==
    /\ stock_data = <<>>
    /\ disk \in [Paths -> InitialFiles]
    /\ disk[MissingPath] = NoFile
    /\ sink = <<>>
    /\ call = NoCall
    /\ raised = ""
    /\ retval = PyNone
    /\ low = <<>>
    /\ logged = <<>>
    /\ sumAdded = [n \in MainNames |-> 0]
    /\ pc = 0

Add ==
    \E item \in ItemArgs, qty \in QtyArgs :
        /\ add_item(item, qty, FALSE)
        /\ InBounds(stock_data')
        /\ UNCHANGED <<sumAdded, pc>>

Remove ==
    \E item \in ItemArgs, qty \in QtyArgs :
        /\ remove_item(item, qty)
        /\ InBounds(stock_data')
        /\ UNCHANGED <<sumAdded, pc>>

QuantityOf == \E item \in ItemArgs : get_qty(item) /\ UNCHANGED <<sumAdded, pc>>

LowStockItems == \E threshold \in ThresholdArgs : check_low_items(threshold) /\ UNCHANGED <<sumAdded, pc>>

PrintReport == print_data /\ UNCHANGED <<sumAdded, pc>>

Load ==
    \E file \in Paths \cup {InvalidPath}, outcome \in ReadOutcomes :
        load_data(file, outcome) /\ UNCHANGED <<sumAdded, pc>>

Save ==
    \E file \in {FilePath, InvalidPath}, outcome \in WriteOutcomes :
        save_data(file, outcome) /\ UNCHANGED <<sumAdded, pc>>

Next == Add \/ Remove \/ QuantityOf \/ LowStockItems \/ PrintReport \/ Load \/ Save

Spec == Init /\ [][Next]_vars

----------------------------------------------------------------------------
(* The program in memory: add_item (with or without the caller's sink) and *)
(* remove_item from the empty inventory, no file                           *)

InitMem == Init /\ disk[FilePath] = NoFile

AddMem ==
    \E item \in ItemArgs, qty \in QtyArgs, logs \in BOOLEAN :
        /\ add_item(item, qty, logs)
        /\ InBounds(stock_data')
        /\ Len(sink') <= MaxSink
        /\ UNCHANGED <<sumAdded, pc>>

NextMem == AddMem \/ Remove

SpecMem == InitMem /\ [][NextMem]_vars

----------------------------------------------------------------------------
(* The program without load_data: every other operation, from the empty    *)
(* inventory                                                               *)

NextNoLoad == Add \/ Remove \/ QuantityOf \/ LowStockItems \/ PrintReport \/ Save

SpecNoLoad == InitMem /\ [][NextNoLoad]_vars

----------------------------------------------------------------------------
(* Every operation, with one sink shared by the adds that are handed one:  *)
(* one item name, and {"apple": "5", "banana": 0.5} on disk at the start   *)

SinkItemArgs == {PyStr("apple"), PyStr(""), PyInt(7)}

InitSink == Init /\ disk[FilePath] = File(FileStringValue)

AddSink ==
    \E item \in SinkItemArgs, qty \in QtyArgs, logs \in BOOLEAN :
        /\ add_item(item, qty, logs)
        /\ InBounds(stock_data')
        /\ Len(sink') <= MaxSink
        /\ UNCHANGED <<sumAdded, pc>>

RemoveSink ==
    \E item \in SinkItemArgs, qty \in QtyArgs :
        /\ remove_item(item, qty)
        /\ InBounds(stock_data')
        /\ UNCHANGED <<sumAdded, pc>>

NextSink ==
    AddSink \/ RemoveSink \/ QuantityOf \/ LowStockItems \/ PrintReport \/ Load \/ Save

SpecSink == InitSink /\ [][NextSink]_vars

----------------------------------------------------------------------------
(* Adds only, with arguments that pass validation and name an item; the    *)
(* history variable keeps the sum of the quantities passed per item        *)

\* int(qty): what a qty that passed validation adds
IntOf(qty) == qty.n

AddValid ==
    \E item \in {PyStr(n) : n \in MainNames},
       qty \in {q \in QtyArgs : IsInstanceInt(q) /\ q.n >= 0} :
        /\ add_item(item, qty, FALSE)
        /\ sumAdded' = [sumAdded EXCEPT ![item.s] = @ + IntOf(qty)]
        /\ InBounds(stock_data')
        /\ UNCHANGED pc

NextAdd == AddValid

SpecAdd == InitMem /\ [][NextAdd]_vars

----------------------------------------------------------------------------
(* main(): its statements in order, from the empty inventory, with any file *)
(* at the default path; a caller may look at the inventory (get_qty,        *)
(* check_low_items) between two statements                                  *)

\* The statement has run: on to the next one, unless an exception ended main().
Advance ==
    /\ pc' = IF raised' = "" THEN pc + 1 ELSE -1
    /\ UNCHANGED sumAdded

MainStatement ==
    \/ pc = 0 /\ add_item(PyStr("apple"), PyInt(10), FALSE) /\ Advance
    \/ pc = 1 /\ add_item(PyStr("banana"), PyInt(2), FALSE) /\ Advance
    \/ pc = 2 /\ add_item(PyStr("orange"), PyInt(5), FALSE) /\ Advance
    \/ pc = 3 /\ remove_item(PyStr("apple"), PyInt(3)) /\ Advance
    \/ pc = 4 /\ remove_item(PyStr("orange"), PyInt(1)) /\ Advance
    \/ pc = 5 /\ get_qty(PyStr("apple")) /\ Advance
    \/ pc = 6 /\ check_low_items(PyInt(5)) /\ Advance
    \/ pc = 7 /\ (\E outcome \in WriteOutcomes : save_data(FilePath, outcome)) /\ Advance
    \/ pc = 8 /\ (\E outcome \in ReadOutcomes : load_data(FilePath, outcome)) /\ Advance
    \/ pc = 9 /\ print_data /\ Advance

NextMain == MainStatement \/ QuantityOf \/ LowStockItems

SpecMain == Init /\ [][NextMain]_vars

----------------------------------------------------------------------------
(* The claims' vocabulary, stated apart from the code's own tests *)

\* a == b: numbers by value (True == 1, 1.0 == 1), the rest by type and content.
PyEq(a, b) ==
    IF IsNumber(a) /\ IsNumber(b) THEN Twice(a) = Twice(b) ELSE a = b

\* d1 == d2: the same keys with equal values, in any order
DictEq(d1, d2) ==
    /\ Keys(d1) = Keys(d2)
    /\ \A k \in Keys(d1) : PyEq(DictAt(d1, k), DictAt(d2, k))

\* The quantity of an entry is a number greater than zero.
IsPositiveQuantity(v) == v.t \in {"int", "bool", "float"} /\ v.n > 0

\* An argument the spec calls invalid for add: an item that is no string, a
\* qty that is no integer (a bool is one, as Python has it), a negative qty.
InvalidForAdd(item, qty) ==
    \/ item.t # "str"
    \/ qty.t \notin {"int", "bool"}
    \/ qty.n < 0

\* remove rejects qty = 0 as well.
InvalidForRemove(item, qty) == InvalidForAdd(item, qty) \/ qty.n = 0

\* The files a load fails on: none at the path, text that is no JSON (cut
\* short, or empty after a failed write), and JSON that is no object.
IsFailingFile(f) == f = NoFile \/ f.toks \in {FileCutShort, <<>>, FileArray}

----------------------------------------------------------------------------
(* C1 *)

\* C1: in every state reachable from the empty inventory by add and remove
\* calls (no load), no entry has a quantity that is zero or negative.
C1_NoEntryAtOrBelowZero ==
    \A i \in 1..Len(stock_data) : IsPositiveQuantity(stock_data[i].v)

----------------------------------------------------------------------------
(* C2 *)

\* C2: no call ends in an uncaught error: after any add, remove, quantityOf,
\* lowStockItems or report call, whatever was loaded before it, no exception
\* has escaped to the caller.  (What escapes load and save themselves is
\* the subject of C17 and C14.)
C2_EveryCallReturns ==
    raised = "" \/ call.op \in {"load_data", "save_data"}

----------------------------------------------------------------------------
(* C3 *)

\* C3: an add or a remove with invalid arguments leaves the whole inventory
\* as it was before the call, from any reachable state.
C3_InvalidArgumentsDoNotMutate ==
    [][(\/ call'.op = "add_item" /\ InvalidForAdd(call'.item, call'.qty)
        \/ call'.op = "remove_item" /\ InvalidForRemove(call'.item, call'.qty))
       => stock_data' = stock_data]_vars

\* remove with qty = 0 has been rejected for an item that is in stock.
C3_Witness ==
    /\ call.op = "remove_item"
    /\ call.qty = PyInt(0)
    /\ call.item.t = "str"
    /\ HasKey(stock_data, call.item.s)
    /\ logged = <<LogRecord("ERROR", "remove_item", "qty", PyInt(0))>>

----------------------------------------------------------------------------
(* C4 *)

\* C4: a load of a path with no file, with text that is no JSON, or with
\* JSON whose top-level value is no object leaves the inventory as it was.
C4_FailedLoadKeepsInventory ==
    [][(call'.op = "load_data" /\ call'.file \in Paths /\ IsFailingFile(disk[call'.file]))
       => stock_data' = stock_data]_vars

\* A load has failed to decode the file, with two entries in memory.
C4_Witness ==
    /\ call.op = "load_data"
    /\ call.file \in Paths
    /\ disk[call.file] = File(FileCutShort)
    /\ raised = ""
    /\ logged = <<LogRecord("ERROR", "load_data", call.file, PyNone)>>
    /\ Len(stock_data) = 2

----------------------------------------------------------------------------
(* C5 *)

\* C5: a successful save(path) immediately followed by a load(path) of the
\* file it wrote yields an inventory equal to the one before the save (the
\* same keys with the same quantities).
C5_SaveLoadRoundTrip ==
    [][(/\ call.op = "save_data" /\ logged = <<>>
        /\ call'.op = "load_data" /\ call'.file = call.file /\ raised' = "")
       => DictEq(stock_data', stock_data)]_vars

\* A load has returned the inventory that the file, written by save, holds:
\* a str beside a float, which no file found at start holds.
C5_Witness ==
    /\ call.op = "load_data"
    /\ raised = ""
    /\ logged = <<>>
    /\ call.file \in Paths
    /\ disk[call.file] = File(JsonDump(stock_data))
    /\ disk[call.file] \notin InitialFiles
    /\ Len(stock_data) = 2
    /\ \E i \in 1..Len(stock_data) : stock_data[i].v.t = "str"
    /\ \E i \in 1..Len(stock_data) : stock_data[i].v.t = "float"

----------------------------------------------------------------------------
(* C6 *)

\* C6: a load of a file that holds a JSON object leaves exactly the parsed
\* mapping: a key that was in memory and is not in the file is gone, and
\* every key of the file has the file's value.
C6_LoadReplaces ==
    [][(call'.op = "load_data" /\ raised' = "" /\ call'.file \in Paths /\ ~IsFailingFile(disk[call'.file]))
       => LET parsed == JsonLoad(disk[call'.file].toks).dict
          IN  /\ stock_data' = parsed
              /\ \A k \in Keys(stock_data) \ Keys(parsed) : ~HasKey(stock_data', k)
              /\ \A k \in Keys(parsed) : DictAt(stock_data', k) = DictAt(parsed, k)]_vars

\* {"banana": -2} has been loaded, and banana is all the inventory holds.
C6_Witness ==
    /\ call.op = "load_data"
    /\ raised = ""
    /\ logged = <<>>
    /\ call.file \in Paths
    /\ disk[call.file] = File(FileNegativeValue)
    /\ stock_data = <<[k |-> "banana", v |-> PyInt(-2)]>>

----------------------------------------------------------------------------
(* C7 *)

\* C7: a remove with a valid positive qty of a present item whose quantity
\* is <= qty leaves the item absent: quantityOf gives 0, and the item is in
\* no lowStockItems result and in no line of the report.
C7_RemoveAllDeletes ==
    [][(/\ call'.op = "remove_item"
        /\ ~InvalidForRemove(call'.item, call'.qty)
        /\ HasKey(stock_data, call'.item.s)
        /\ IsNumber(DictAt(stock_data, call'.item.s))
        /\ Twice(DictAt(stock_data, call'.item.s)) <= 2 * call'.qty.n)
       => /\ ~HasKey(stock_data', call'.item.s)
          /\ GetQty(stock_data', call'.item) = PyInt(0)
          /\ \A threshold \in ThresholdArgs :
                \/ LowItemsRaises(stock_data', threshold)
                \/ \A i \in 1..Len(LowItems(stock_data', threshold, 1)) :
                      LowItems(stock_data', threshold, 1)[i] # call'.item.s
          /\ \A i \in 1..Len(Report(stock_data')) :
                Report(stock_data')[i].key # call'.item.s]_vars

\* A remove that logged nothing (the item was there) has left the item
\* absent, another entry remaining.
C7_Witness ==
    /\ call.op = "remove_item"
    /\ ~InvalidForRemove(call.item, call.qty)
    /\ raised = ""
    /\ logged = <<>>
    /\ ~HasKey(stock_data, call.item.s)
    /\ stock_data # <<>>

----------------------------------------------------------------------------
(* C8 *)

\* C8: a remove, with a valid positive qty, of a string item that is no key
\* leaves the inventory as it was, and one warning is all it reports.
C8_RemoveAbsentIsNoOp ==
    [][(/\ call'.op = "remove_item"
        /\ ~InvalidForRemove(call'.item, call'.qty)
        /\ ~HasKey(stock_data, call'.item.s))
       => /\ stock_data' = stock_data
          /\ raised' = ""
          /\ Len(logged') = 1
          /\ logged'[1].level = "WARNING"]_vars

\* The warning of a remove of banana, with apple the only entry.
C8_Witness ==
    /\ call.op = "remove_item"
    /\ call.item = PyStr("banana")
    /\ Keys(stock_data) = {"apple"}
    /\ Len(logged) = 1
    /\ logged[1].level = "WARNING"

----------------------------------------------------------------------------
(* C9 *)

\* C9: after any sequence of adds of non-empty string items with
\* non-negative integer quantities, from empty, quantityOf(item) is the sum
\* of the quantities added for that item, for every item.
C9_AddAccumulates ==
    \A n \in MainNames : GetQty(stock_data, PyStr(n)) = PyInt(sumAdded[n])

\* Two adds of 1 to one item, and an add to another.
C9_Witness ==
    /\ sumAdded["apple"] = 2
    /\ sumAdded["orange"] = 1
    /\ call.op = "add_item"
    /\ Len(stock_data) = 2

----------------------------------------------------------------------------
(* C10 *)

\* C10: add with the empty string as item leaves the inventory as it was
\* for any qty; no key "" exists in a state reached by add and remove from
\* empty; and with a valid qty the call reports no error and appends
\* nothing to the log sink.
C10_EmptyItemIsNoOp ==
    [][/\ ~HasKey(stock_data, "") /\ ~HasKey(stock_data', "")
       /\ (call'.op = "add_item" /\ call'.item = PyStr(""))
          => /\ stock_data' = stock_data
             /\ raised' = ""
             /\ ~InvalidForAdd(call'.item, call'.qty) => (logged' = <<>> /\ sink' = sink)]_vars

\* add("", 1, sink) has returned: the inventory and the sink hold what they held.
C10_Witness ==
    /\ call.op = "add_item"
    /\ call.item = PyStr("")
    /\ call.qty = PyInt(1)
    /\ call.logs
    /\ logged = <<>>
    /\ Len(sink) = 1
    /\ Len(stock_data) = 1

----------------------------------------------------------------------------
(* C11 *)

\* lst holds exactly the keys of d whose quantity is below threshold, each
\* once, in the order d holds them.
IsLowStockList(lst, d, threshold) ==
    /\ {lst[i] : i \in 1..Len(lst)} =
          {d[i].k : i \in {j \in 1..Len(d) :
              /\ d[j].v.t \in {"int", "bool", "float"}
              /\ threshold.t \in {"int", "bool", "float"}
              /\ Twice(d[j].v) < Twice(threshold)}}
    /\ \A i, j \in 1..Len(lst) :
          i < j => \E a, b \in 1..Len(d) : a < b /\ d[a].k = lst[i] /\ d[b].k = lst[j]

\* C11: a lowStockItems call that returns gives exactly the names whose
\* quantity is strictly below the threshold, each once, in insertion order;
\* and once main() has made its three adds and two removes from empty,
\* quantityOf(apple) is 7 and lowStockItems(5) is [banana, orange].
C11_LowStockItems ==
    /\ (call.op = "check_low_items" /\ raised = "")
          => IsLowStockList(low, stock_data, call.threshold)
    /\ (pc \in 5..7 /\ call.op = "get_qty" /\ call.item = PyStr("apple"))
          => retval = PyInt(7)
    /\ (pc \in 5..7 /\ call.op = "check_low_items" /\ call.threshold = PyInt(5))
          => (raised = "" /\ low = <<"banana", "orange">>)

\* main() has run its check_low_items(): [banana, orange], apple at 7.
C11_Witness ==
    /\ pc = 7
    /\ call.op = "check_low_items"
    /\ call.threshold = PyInt(5)
    /\ low = <<"banana", "orange">>
    /\ stock_data = <<[k |-> "apple", v |-> PyInt(7)], [k |-> "banana", v |-> PyInt(2)],
                      [k |-> "orange", v |-> PyInt(4)]>>

----------------------------------------------------------------------------
(* C12 *)

\* The key holds a negative int.
IsNegativeEntry(d, k) == HasKey(d, k) /\ DictAt(d, k).t = "int" /\ DictAt(d, k).n < 0

\* The call just made is add_item or remove_item of a string item with a
\* qty that its validation accepts.
TouchesWith(c, op) ==
    /\ c.op = op
    /\ c.item.t = "str"
    /\ c.qty.t \in {"int", "bool"}
    /\ IF op = "add_item" THEN c.qty.n >= 0 ELSE c.qty.n > 0

\* C12 (as claimed): right after a load that accepted a negative quantity
\* for a key, an add or remove of that key with a valid qty leaves the key
\* absent or holding a non-negative integer.
C12_NegativeEndsAtNextTouch ==
    [][(/\ call.op = "load_data" /\ raised = "" /\ logged = <<>>
        /\ (TouchesWith(call', "add_item") \/ TouchesWith(call', "remove_item"))
        /\ IsNegativeEntry(stock_data, call'.item.s))
       => \/ ~HasKey(stock_data', call'.item.s)
          \/ /\ DictAt(stock_data', call'.item.s).t = "int"
             /\ DictAt(stock_data', call'.item.s).n >= 0]_vars

\* C12 (amended): of a key that holds a negative integer v, a remove with a
\* valid qty deletes the key, and an add with a valid qty q leaves the key
\* holding the integer v + q, negative still when q < -v.
C12_NegativeEndsAtRemove ==
    [][(/\ (TouchesWith(call', "add_item") \/ TouchesWith(call', "remove_item"))
        /\ IsNegativeEntry(stock_data, call'.item.s))
       => IF call'.op = "remove_item"
          THEN ~HasKey(stock_data', call'.item.s)
          ELSE /\ HasKey(stock_data', call'.item.s)
               /\ DictAt(stock_data', call'.item.s) =
                     PyInt(DictAt(stock_data, call'.item.s).n + call'.qty.n)]_vars

\* add_item("banana", 1) has returned and banana, loaded at -2, holds -1.
C12_Witness ==
    /\ call.op = "add_item"
    /\ call.item = PyStr("banana")
    /\ call.qty = PyInt(1)
    /\ raised = ""
    /\ disk[FilePath] = File(FileNegativeValue)
    /\ stock_data = <<[k |-> "banana", v |-> PyInt(-1)]>>

----------------------------------------------------------------------------
(* C13 *)

\* The call c, with the sink handed to it, was an add that passed validation
\* with a non-empty item and took the inventory from before to after by
\* adding c.qty to the item's quantity.
IsSuccessfulAdd(c, before, after) ==
    /\ TouchesWith(c, "add_item")
    /\ c.logs
    /\ c.item.s # ""
    /\ HasKey(after, c.item.s)
    /\ LET old == IF HasKey(before, c.item.s) THEN DictAt(before, c.item.s) ELSE PyInt(0)
       IN  /\ old.t \in {"int", "bool", "float"}
           /\ Twice(DictAt(after, c.item.s)) = Twice(old) + 2 * c.qty.n

----------------------------------------------------------------------------
(* C14 *)

\* C14: save returns normally and leaves the inventory as it was, for any
\* reachable inventory, any path and any outcome of the write.
C14_SaveNeverRaisesNorMutates ==
    [][call'.op = "save_data" => (raised' = "" /\ stock_data' = stock_data)]_vars

----------------------------------------------------------------------------
(* C15 *)

\* C15: quantityOf returns normally with the stored quantity of a string
\* item that is present, 0 for one that is absent and 0 for an item that is
\* no string, and leaves the inventory as it was (no entry is created);
\* lowStockItems and report leave the inventory as it was too.
C15_ReadsArePure ==
    [][/\ call'.op = "get_qty" =>
            /\ raised' = ""
            /\ stock_data' = stock_data
            /\ retval' = IF call'.item.t = "str" /\ HasKey(stock_data, call'.item.s)
                         THEN stock_data[IndexOf(stock_data, call'.item.s)].v
                         ELSE PyInt(0)
       /\ call'.op \in {"check_low_items", "print_data"} =>
            stock_data' = stock_data]_vars

\* quantityOf has answered 0 for a string item that is absent from a
\* non-empty inventory.
C15_Witness ==
    /\ call.op = "get_qty"
    /\ stock_data # <<>>
    /\ call.item.t = "str"
    /\ ~HasKey(stock_data, call.item.s)
    /\ retval = PyInt(0)

----------------------------------------------------------------------------
(* C16 *)

\* C16: a remove of a valid positive integer qty from a present item whose
\* integer quantity c is greater than qty leaves the item present with
\* quantity c - qty, at the place it had in the iteration order.
C16_PartialRemovalKeepsEntry ==
    [][(/\ call'.op = "remove_item"
        /\ ~InvalidForRemove(call'.item, call'.qty)
        /\ HasKey(stock_data, call'.item.s)
        /\ DictAt(stock_data, call'.item.s).t = "int"
        /\ DictAt(stock_data, call'.item.s).n > call'.qty.n)
       => LET k == call'.item.s
              i == IndexOf(stock_data, k)
          IN  /\ raised' = ""
              /\ Len(stock_data') = Len(stock_data)
              /\ stock_data'[i].k = k
              /\ stock_data'[i].v = PyInt(stock_data[i].v.n - call'.qty.n)]_vars

\* A partial removal from the first of two entries has happened.
C16_Witness ==
    /\ call.op = "remove_item"
    /\ ~InvalidForRemove(call.item, call.qty)
    /\ Len(stock_data) = 2
    /\ stock_data[1].k = call.item.s
    /\ stock_data[1].v = PyInt(1)
    /\ raised = ""
    /\ logged = <<>>

----------------------------------------------------------------------------
(* C17 *)

\* C17: load returns normally whatever the condition of the file at a valid
\* path: absent, no JSON, no object, and also unreadable (permission denied,
\* a directory, bytes that are no UTF-8).
C17_LoadNeverRaises ==
    [][(call'.op = "load_data" /\ IsValidPath(call'.file)) => raised' = ""]_vars

----------------------------------------------------------------------------
(* C18 *)

\* C18: without load, every key of the inventory is a non-empty string and
\* every stored quantity is an integer greater than or equal to 0.
C18_KeysAndQuantitiesWellFormed ==
    \A i \in 1..Len(stock_data) :
        /\ stock_data[i].k # ""
        /\ stock_data[i].v.t = "int"
        /\ stock_data[i].v.n >= 0

\* Two entries, one of them at quantity 0, after a removal that went through.
C18_Witness ==
    /\ Len(stock_data) = 2
    /\ \E i \in 1..2 : stock_data[i].v = PyInt(0)
    /\ call.op = "remove_item"
    /\ raised = ""
    /\ logged = <<>>

----------------------------------------------------------------------------
(* C19 *)

\* The entries of d under keys other than item, in their order.
OtherEntries(d, item) ==
    SelectSeq(d, LAMBDA e : ~(item.t = "str" /\ e.k = item.s))

====
